---- MODULE Spec2Model ----
(***************************************************************************)
(* Model of the us-treasury-yield library: the CSV parser that builds a    *)
(* TreasuryCurveHistory (treasury_curve.rs), the date resolver from_date / *)
(* closest_date, the curve accessor get_label, and the year gate of the    *)
(* fetch layer (request.rs, lib.rs).                                       *)
(*                                                                         *)
(* Text (Rust String / &str) is a sequence of tokens.  The three           *)
(* characters the code acts on are tokens of their own: NL, COMMA, QUOTE;  *)
(* every other token is a run of characters the code never looks into      *)
(* except to compare it or to hand it to a parser.  A Date is the number   *)
(* of days since 1970-01-01, which orders and adds as time::Date does.     *)
(* Option<T> is a sequence of length 0 (None) or 1 (Some).  An f64 yield   *)
(* is its value in hundredths of a percent.                                *)
(***************************************************************************)
EXTENDS Integers, Sequences, FiniteSets, TLC

(***************************************************************************)
(* Program constants.                                                      *)
(***************************************************************************)
CURVE_LENGTH == 13

CURVE_LABELS ==
    << "1 Mo", "2 Mo", "3 Mo", "4 Mo", "6 Mo", "1 Yr", "2 Yr", "3 Yr",
       "5 Yr", "7 Yr", "10 Yr", "20 Yr", "30 Yr" >>

MIN_YEAR_AVAIL == 1990

MAX_FORWARD_DAYS == 5

NL == "\n"

COMMA == ","

QUOTE == "\""

None == << >>

Some(v) == << v >>

(***************************************************************************)
(* str::split(sep): the pieces between the separators; an empty text       *)
(* yields one empty piece.                                                 *)
(***************************************************************************)
Split(s, sep) ==
    LET seps   == { i \in 1..Len(s) : s[i] = sep }
        n      == Cardinality(seps)
        pos(k) == IF k = 0 THEN 0
                  ELSE IF k = n + 1 THEN Len(s) + 1
                  ELSE CHOOSE i \in seps : Cardinality({ j \in seps : j < i }) = k - 1
    IN  [k \in 1..(n + 1) |-> SubSeq(s, pos(k - 1) + 1, pos(k) - 1)]

(* str::replace(ch, ""): the text without the tokens equal to ch. *)
Replace(s, ch) == SelectSeq(s, LAMBDA t : t # ch)

(***************************************************************************)
(* time::Date.  days_from_civil / civil_from_days of the proleptic         *)
(* Gregorian calendar (years of this model are positive).                  *)
(***************************************************************************)
IsLeap(y) == (y % 4 = 0 /\ y % 100 # 0) \/ y % 400 = 0

DaysInMonth(y, m) ==
    IF m = 2 THEN (IF IsLeap(y) THEN 29 ELSE 28)
    ELSE IF m \in {4, 6, 9, 11} THEN 30 ELSE 31

from_calendar_date(y, m, d) ==
    LET yy  == IF m <= 2 THEN y - 1 ELSE y
        era == yy \div 400
        yoe == yy - era * 400
        mp  == IF m > 2 THEN m - 3 ELSE m + 9
        doy == (153 * mp + 2) \div 5 + d - 1
        doe == yoe * 365 + yoe \div 4 - yoe \div 100 + doy
    IN  era * 146097 + doe - 719468

(* The calendar date <<year, month, day>> of a Date. *)
to_calendar_date(date) ==
    LET z   == date + 719468
        era == z \div 146097
        doe == z - era * 146097
        yoe == (doe - doe \div 1460 + doe \div 36524 - doe \div 146096) \div 365
        doy == doe - (365 * yoe + yoe \div 4 - yoe \div 100)
        mp  == (5 * doy + 2) \div 153
        d   == doy - (153 * mp + 2) \div 5 + 1
        m   == IF mp < 10 THEN mp + 3 ELSE mp - 9
        y   == yoe + era * 400 + (IF m <= 2 THEN 1 ELSE 0)
    IN  << y, m, d >>

(* Date::year *)
year(date) == to_calendar_date(date)[1]

(***************************************************************************)
(* The texts the parsers of this model are given.  DATE_TEXT gives, for a  *)
(* text in the format [month]/[day]/[year], its three numbers; a text      *)
(* outside its domain does not match the format.  F64_TEXT gives the value *)
(* (in hundredths) of a text that is a decimal number.                     *)
(***************************************************************************)
DATE_TEXT ==
    ("12/26/2023" :> << 12, 26, 2023 >>) @@
    ("12/28/2023" :> << 12, 28, 2023 >>) @@
    ("12/29/2023" :> << 12, 29, 2023 >>) @@
    ("02/30/2023" :> << 2, 30, 2023 >>)

F64_TEXT ==
    ("5.32" :> 532) @@ ("5.47" :> 547) @@ ("5.46" :> 546) @@ ("5.52" :> 552) @@
    ("5.53" :> 553) @@ ("5.41" :> 541) @@ ("4.94" :> 494) @@ ("4.64" :> 464) @@
    ("4.35" :> 435) @@ ("4.23" :> 423) @@ ("4.06" :> 406) @@ ("4.27" :> 427) @@
    ("4.05" :> 405) @@ ("3.97" :> 397) @@ ("5.320" :> 532) @@ ("+4.05" :> 405)

(* Date::parse(text, "[month]/[day]/[year]"): Some(date) or None (an error). *)
DateParse(text) ==
    IF Len(text) = 1 /\ text[1] \in DOMAIN DATE_TEXT
    THEN LET c == DATE_TEXT[text[1]]
         IN  IF c[1] \in 1..12 /\ c[2] \in 1..DaysInMonth(c[3], c[1])
             THEN Some(from_calendar_date(c[3], c[1], c[2]))
             ELSE None
    ELSE None

(* str::parse::<f64>: Some(value) or None (an error). *)
F64Parse(text) ==
    IF Len(text) = 1 /\ text[1] \in DOMAIN F64_TEXT
    THEN Some(F64_TEXT[text[1]])
    ELSE None

(***************************************************************************)
(* TreasuryCurveError values, one record shape for all kinds.              *)
(***************************************************************************)
NoError == [kind |-> "None", label |-> << >>, year |-> 0, date |-> << >>]

MissingLabel(label) == [NoError EXCEPT !.kind = "MissingLabel", !.label = label]

InvalidYear(y) == [NoError EXCEPT !.kind = "InvalidYear", !.year = y]

(* The payload is request_date.to_string(): the calendar date's digits. *)
OutsideDateRange(date) ==
    [NoError EXCEPT !.kind = "OutsideDateRange", !.date = to_calendar_date(date)]

FetchData == [NoError EXCEPT !.kind = "FetchData"]

WebParseUtf8 == [NoError EXCEPT !.kind = "WebParseUtf8"]

(***************************************************************************)
(* Column resolver.                                                        *)
(***************************************************************************)
(* CURVE_LABELS.iter().position(|l| l == label): Some(0-based index) or None. *)
search_labels(label) ==
    IF \E i \in 1..CURVE_LENGTH : << CURVE_LABELS[i] >> = label
    THEN Some((CHOOSE i \in 1..CURVE_LENGTH : << CURVE_LABELS[i] >> = label) - 1)
    ELSE None

RECURSIVE Pow2(_)
Pow2(n) == IF n = 0 THEN 1 ELSE 2 * Pow2(n - 1)

(* (flags >> i) & 1 on a u16. *)
Bit(flags, i) == (flags \div Pow2(i)) % 2

(* flags | (1 << i) *)
SetBit(flags, i) == IF Bit(flags, i) = 1 THEN flags ELSE flags + Pow2(i)

(* u16::count_ones *)
RECURSIVE CountOnesFrom(_, _)
CountOnesFrom(flags, i) ==
    IF i = 16 THEN 0 ELSE Bit(flags, i) + CountOnesFrom(flags, i + 1)

count_ones(flags) == CountOnesFrom(flags, 0)

(* The loop of active_flags skipping a label it does not know. *)
RECURSIVE ActiveFlagsSkipping(_, _, _)
ActiveFlagsSkipping(headers, k, flags) ==
    IF k > Len(headers)
    THEN [ok |-> TRUE, flags |-> flags, err |-> NoError]
    ELSE LET found == search_labels(headers[k])
         IN  IF found = None
             THEN ActiveFlagsSkipping(headers, k + 1, flags)
             ELSE ActiveFlagsSkipping(headers, k + 1, SetBit(flags, found[1]))

(* The loop of active_flags over headers[k..], with the flags so far. *)
RECURSIVE ActiveFlagsFrom(_, _, _)
ActiveFlagsFrom(headers, k, flags) ==
    IF k > Len(headers)
    THEN [ok |-> TRUE, flags |-> flags, err |-> NoError]
    ELSE LET found == search_labels(headers[k])
         IN  IF found = None
             THEN [ok |-> FALSE, flags |-> 0, err |-> MissingLabel(headers[k])]
             ELSE ActiveFlagsFrom(headers, k + 1, SetBit(flags, found[1]))

active_flags(headers) == ActiveFlagsFrom(headers, 2, 0)

(***************************************************************************)
(* Row decoder.                                                            *)
(***************************************************************************)
(* Vec::insert(i, None), i 0-based and at most the length. *)
InsertNone(data, i) == SubSeq(data, 1, i) \o << None >> \o SubSeq(data, i + 1, Len(data))

(* InsertGaps pushing every absence to the end of the vector instead of
   inserting it at its canonical position. *)
RECURSIVE InsertGapsAtEnd(_, _, _)
InsertGapsAtEnd(data, flags, i) ==
    IF i = CURVE_LENGTH
    THEN [panic |-> FALSE, data |-> data]
    ELSE IF Bit(flags, i) = 0
         THEN InsertGapsAtEnd(Append(data, None), flags, i + 1)
         ELSE InsertGapsAtEnd(data, flags, i + 1)

(* The loop "for i in 0..CURVE_LENGTH" of load_curve from index i on;
   inserting past the end of the vector panics. *)
RECURSIVE InsertGaps(_, _, _)
InsertGaps(data, flags, i) ==
    IF i = CURVE_LENGTH
    THEN [panic |-> FALSE, data |-> data]
    ELSE IF Bit(flags, i) = 0
         THEN IF i > Len(data)
              THEN [panic |-> TRUE, data |-> << >>]
              ELSE InsertGaps(InsertNone(data, i), flags, i + 1)
         ELSE InsertGaps(data, flags, i + 1)

(* load_curve: the 13 positions of the row, or a panic (unwrap of a failed
   parse, insert out of bounds, or a length other than CURVE_LENGTH). *)
load_curve(data, flags) ==
    LET fields == Tail(Split(data, COMMA))
        parsed == [k \in 1..Len(fields) |-> F64Parse(fields[k])]
    IN  IF \E k \in 1..Len(fields) : parsed[k] = None
        THEN [panic |-> TRUE, curve |-> << >>]
        ELSE LET gaps == IF count_ones(flags) # 13
                         THEN InsertGaps(parsed, flags, 0)
                         ELSE [panic |-> FALSE, data |-> parsed]
             IN  IF gaps.panic \/ Len(gaps.data) # CURVE_LENGTH
                 THEN [panic |-> TRUE, curve |-> << >>]
                 ELSE [panic |-> FALSE, curve |-> gaps.data]

(* load_date: the date of the row's first field, or a panic. *)
load_date(data) ==
    LET parsed == DateParse(Split(data, COMMA)[1])
    IN  IF parsed = None
        THEN [panic |-> TRUE, date |-> 0]
        ELSE [panic |-> FALSE, date |-> parsed[1]]

(***************************************************************************)
(* History builder.                                                        *)
(***************************************************************************)
(* Where the stable sort_by puts x among the already sorted pairs: behind
   every pair that does not compare after it, a.0.cmp(b.0) when ascending
   and b.0.cmp(a.0) when not. *)
RECURSIVE InsertStable(_, _, _)
InsertStable(sorted, x, ascending) ==
    IF sorted = << >>
    THEN << x >>
    ELSE IF (IF ascending THEN x[1] < Head(sorted)[1] ELSE x[1] > Head(sorted)[1])
         THEN << x >> \o sorted
         ELSE << Head(sorted) >> \o InsertStable(Tail(sorted), x, ascending)

RECURSIVE SortBy(_, _)
SortBy(zipped, ascending) ==
    IF zipped = << >>
    THEN << >>
    ELSE InsertStable(SortBy(SubSeq(zipped, 1, Len(zipped) - 1), ascending),
                      zipped[Len(zipped)], ascending)

Min(a, b) == IF a < b THEN a ELSE b

(* sort_arrays sorting the primary alone: the secondary keeps its order. *)
sort_arrays_primary_only(primary, secondary, ascending) ==
    LET n      == Min(Len(primary), Len(secondary))
        zipped == [k \in 1..n |-> << primary[k], secondary[k] >>]
        sorted == SortBy(zipped, ascending)
    IN  << [k \in 1..n |-> sorted[k][1]], [k \in 1..n |-> secondary[k]] >>

(* sort_arrays: zip, sort by the primary, unzip. *)
sort_arrays(primary, secondary, ascending) ==
    LET n      == Min(Len(primary), Len(secondary))
        zipped == [k \in 1..n |-> << primary[k], secondary[k] >>]
        sorted == SortBy(zipped, ascending)
    IN  << [k \in 1..n |-> sorted[k][1]], [k \in 1..n |-> sorted[k][2]] >>

EmptyHistory == [dates |-> << >>, curves |-> << >>]

(* TryFrom<TreasuryCurveCsv> for TreasuryCurveHistory. *)
try_from(value) ==
    LET lines   == Split(value, NL)
        headers == Split(Replace(lines[1], QUOTE), COMMA)
        flags   == active_flags(headers)
        rows    == Tail(lines)
        curves  == [k \in 1..Len(rows) |-> load_curve(rows[k], flags.flags)]
        dates   == [k \in 1..Len(rows) |-> load_date(rows[k])]
    IN  IF ~flags.ok
        THEN [status |-> "Err", err |-> flags.err, hist |-> EmptyHistory]
        ELSE IF \E k \in 1..Len(rows) : curves[k].panic \/ dates[k].panic
             THEN [status |-> "Panic", err |-> NoError, hist |-> EmptyHistory]
             ELSE LET sorted == sort_arrays([k \in 1..Len(rows) |-> dates[k].date],
                                            [k \in 1..Len(rows) |-> curves[k].curve],
                                            FALSE)
                  IN  [status |-> "Ok", err |-> NoError,
                       hist |-> [dates |-> sorted[1], curves |-> sorted[2]]]

(***************************************************************************)
(* Queries.  A result is one record shape for all operations: date and     *)
(* curve are set by latest / from_date, value by get_label, index by       *)
(* closest_date.                                                           *)
(***************************************************************************)
Result(status, err, date, curve, value) ==
    [status |-> status, err |-> err, date |-> date, curve |-> curve, value |-> value,
     index |-> None]

Panic == Result("Panic", NoError, None, << >>, None)

Err(e) == Result("Err", e, None, << >>, None)

(* TreasuryCurveHistory::latest; indexing an empty Vec panics. *)
latest(hist) ==
    IF Len(hist.dates) = 0 \/ Len(hist.curves) = 0
    THEN Panic
    ELSE Result("Ok", NoError, Some(hist.dates[1]), hist.curves[1], None)

(* Scan with the test "dates[index] < request_date": an exact date is passed over. *)
RECURSIVE ScanStrict(_, _, _)
ScanStrict(dates, request_date, index) ==
    LET next == index + 1
    IN  IF next >= Len(dates)
        THEN -1
        ELSE IF dates[next + 1] < request_date
             THEN next
             ELSE ScanStrict(dates, request_date, next)

(* The while loop of closest_date: index is the value before "index += 1";
   the result is the 0-based index found, or -1 when dates[index] is read
   past the end (a panic). *)
RECURSIVE Scan(_, _, _)
Scan(dates, request_date, index) ==
    LET next == index + 1
    IN  IF next >= Len(dates)
        THEN -1
        ELSE IF dates[next + 1] <= request_date
             THEN next
             ELSE Scan(dates, request_date, next)

(* closest_date without the branch "request_date <= last": a request before
   the oldest date goes into the scan. *)
closest_date_no_lower(hist, request_date) ==
    IF request_date >= hist.dates[1]
    THEN 0
    ELSE Scan(hist.dates, request_date, 0)

(* closest_date on a non-empty history: a 0-based index, or -1 for a panic. *)
closest_date(hist, request_date) ==
    IF request_date >= hist.dates[1]
    THEN 0
    ELSE IF request_date <= hist.dates[Len(hist.dates)]
         THEN Len(hist.dates) - 1
         ELSE Scan(hist.dates, request_date, 0)

(* from_date with the forward window closed one day early (">=" for ">"). *)
from_date_short(hist, request_date) ==
    IF Len(hist.dates) = 0
    THEN Panic
    ELSE IF \/ request_date < hist.dates[Len(hist.dates)]
            \/ request_date >= hist.dates[1] + MAX_FORWARD_DAYS
         THEN Err(OutsideDateRange(request_date))
         ELSE Result("Ok", NoError, Some(hist.dates[closest_date(hist, request_date) + 1]),
                     hist.curves[closest_date(hist, request_date) + 1], None)

(* TreasuryCurveHistory::from_date; last().unwrap() on an empty Vec panics. *)
from_date(hist, request_date) ==
    IF Len(hist.dates) = 0
    THEN Panic
    ELSE IF \/ request_date < hist.dates[Len(hist.dates)]
            \/ request_date > hist.dates[1] + MAX_FORWARD_DAYS
         THEN Err(OutsideDateRange(request_date))
         ELSE LET index == closest_date(hist, request_date)
              IN  IF index < 0 \/ index >= Len(hist.curves)
                  THEN Panic
                  ELSE Result("Ok", NoError, Some(hist.dates[index + 1]),
                              hist.curves[index + 1], None)

(* TreasuryCurve::get_label *)
get_label(curve, label) ==
    LET found == search_labels(label)
    IN  IF found = None
        THEN Result("Err", MissingLabel(label), None, curve, None)
        ELSE Result("Ok", NoError, None, curve, Some(curve[found[1] + 1]))

(* treasury_url without the test against the current year. *)
treasury_url_no_upper(y, current_year) == ~(y < MIN_YEAR_AVAIL)

(* treasury_url: whether the year passes the gate of the fetch layer. *)
treasury_url(y, current_year) == ~(y < MIN_YEAR_AVAIL \/ y > current_year)

(***************************************************************************)
(* Inputs: the CSV payloads, request dates, years and labels the           *)
(* operations are called with.                                             *)
(***************************************************************************)
MaxRows == 3

MaxMissing == 2

MaxSwapGap == 2

DaysBefore == 4

DaysAfter == 6

(* The number texts of the rows, as in the rows of the repository's tests. *)
VALUE_TEXTS ==
    << "5.32", "5.47", "5.46", "5.52", "5.53", "5.41", "4.94", "4.64",
       "4.35", "4.23", "4.06", "4.27", "4.05", "3.97" >>

ROW_DATES == { "12/26/2023", "12/28/2023", "12/29/2023" }

FixedDates == << "12/28/2023", "12/29/2023", "12/26/2023" >>

LastPublished == from_calendar_date(2023, 12, 29)

RequestDates == (LastPublished - DaysBefore)..(LastPublished + DaysAfter)

RequestYears == { 1985, 1989, 1990, 2023, 2024, 2025 }

Text(t) == << t >>

Quoted(t) == << QUOTE, t, QUOTE >>

QueryLabels ==
    { Text("1 Mo"), Text("4 Mo"), Text("30 Yr"),
      Text("9 Mo"), Text("does_not_exist"), Quoted("1 Mo") }

RECURSIVE Join(_, _)
Join(pieces, sep) ==
    IF Len(pieces) = 0 THEN << >>
    ELSE IF Len(pieces) = 1 THEN pieces[1]
    ELSE pieces[1] \o << sep >> \o Join(Tail(pieces), sep)

(* The text of a CSV from its header fields and the fields of its rows. *)
CsvOf(headerFields, rows) ==
    Join(<< Join(headerFields, COMMA) >> \o [k \in 1..Len(rows) |-> Join(rows[k], COMMA)], NL)

(* The value text in column c of the k-th row: distinct down a column
   and along a row. *)
ValueText(k, c) == VALUE_TEXTS[((k + c - 2) % Len(VALUE_TEXTS)) + 1]

RowFields(dateText, k, ncols) ==
    << Text(dateText) >> \o [c \in 1..ncols |-> Text(ValueText(k, c))]

HeaderFields(labels, quoted) ==
    << Text("Date") >> \o
    [c \in 1..Len(labels) |-> IF quoted THEN Quoted(labels[c]) ELSE Text(labels[c])]

Rows(dateTexts, ncols) == [k \in 1..Len(dateTexts) |-> RowFields(dateTexts[k], k, ncols)]

Csv(labels, quoted, dateTexts) ==
    CsvOf(HeaderFields(labels, quoted), Rows(dateTexts, Len(labels)))

(* The canonical labels without those at the (1-based) positions in M. *)
LabelsWithout(M) ==
    SelectSeq(CURVE_LABELS, LAMBDA l : \A i \in M : CURVE_LABELS[i] # l)

Swap(seq, i, j) == [seq EXCEPT ![i] = seq[j], ![j] = seq[i]]

SeqsUpTo(S, n) == UNION { [1..m -> S] : m \in 0..n }

(* Headers lacking up to MaxMissing tenors, and the header of the year 2000. *)
MissingCsvs ==
    { Csv(LabelsWithout(M), TRUE, FixedDates) :
        M \in { X \in SUBSET (1..CURVE_LENGTH) : Cardinality(X) <= MaxMissing } }
    \cup { Csv(LabelsWithout({1, 2, 4}), TRUE, FixedDates),
           Csv(LabelsWithout(1..CURVE_LENGTH), FALSE, FixedDates) }

(* The full header over every sequence of up to MaxRows row dates. *)
RowOrderCsvs == { Csv(CURVE_LABELS, TRUE, ds) : ds \in SeqsUpTo(ROW_DATES, MaxRows) }

(* Headers listing their labels out of the canonical order: two labels at
   most MaxSwapGap apart exchanged. *)
PermutedCsvs ==
    UNION { { Csv(Swap(L, p[1], p[2]), TRUE, FixedDates) :
                p \in { q \in (1..Len(L)) \X (1..Len(L)) :
                          q[1] < q[2] /\ q[2] - q[1] <= MaxSwapGap } } :
            L \in { CURVE_LABELS, LabelsWithout({1, 2, 4}) } }

(* Header fields that are no canonical label: an unsupported tenor, a label
   in another case, a label with a trailing carriage return, an empty field. *)
UnknownFields ==
    { Quoted("9 Mo"), Text("1 mo"), << "30 Yr", "\r" >>, << >> }

UnknownLabelCsvs ==
    { CsvOf([HeaderFields(LabelsWithout(M), TRUE) EXCEPT ![c] = u],
            Rows(FixedDates, CURVE_LENGTH - Cardinality(M))) :
        M \in { {}, {1, 2, 4} }, c \in { 2, 6, 11 }, u \in UnknownFields }
    \cup { CsvOf([HeaderFields(CURVE_LABELS, TRUE) EXCEPT ![3] = Quoted("9 Mo"),
                                                         ![5] = Text("8 Mo")],
                 Rows(FixedDates, CURVE_LENGTH)) }

(* Fields that are no number, and fields that are no date. *)
BadNumberFields == { Text("N/A"), << >>, Quoted("5.32"), << "4.05", "\r" >> }

BadDateFields == { Text("2023-12-29"), Text("02/30/2023"), << >> }

GoodRows == Rows(FixedDates, CURVE_LENGTH)

(* Rows with a field that does not parse, with a field too few or too many,
   a number spelled another way, a bare header, a header naming a label
   twice, empty lines, and the empty text. *)
MalformedCsvs ==
    { CsvOf(HeaderFields(CURVE_LABELS, TRUE), [GoodRows EXCEPT ![k][c] = f]) :
        k \in { 1, 3 }, c \in { 2, 8, 14 }, f \in BadNumberFields }
    \cup
    { CsvOf(HeaderFields(CURVE_LABELS, TRUE), [GoodRows EXCEPT ![k][1] = f]) :
        k \in { 1, 3 }, f \in BadDateFields }
    \cup
    { CsvOf(HeaderFields(CURVE_LABELS, TRUE),
            [GoodRows EXCEPT ![2] = SubSeq(GoodRows[2], 1, CURVE_LENGTH)]),
      CsvOf(HeaderFields(CURVE_LABELS, TRUE),
            [GoodRows EXCEPT ![2] = GoodRows[2] \o << Text("3.97") >>]),
      CsvOf(HeaderFields(LabelsWithout({1, 2}), TRUE), GoodRows),
      CsvOf(HeaderFields(CURVE_LABELS, TRUE),
            [GoodRows EXCEPT ![1][2] = Text("5.320"), ![3][14] = Text("+4.05")]),
      CsvOf(HeaderFields(CURVE_LABELS, FALSE), GoodRows),
      CsvOf(HeaderFields([CURVE_LABELS EXCEPT ![2] = "1 Mo"], TRUE), GoodRows),
      CsvOf(<< << QUOTE, "Date" >> >> \o Tail(HeaderFields(CURVE_LABELS, TRUE)), GoodRows) }

GoodCsv == Csv(CURVE_LABELS, TRUE, FixedDates)

EmptyLineCsvs ==
    { GoodCsv \o << NL >>,
      GoodCsv \o << NL, NL >>,
      Csv(CURVE_LABELS, TRUE, << >>) \o << NL >>,
      Csv(LabelsWithout({1, 2, 4}), TRUE, FixedDates) \o << NL >>,
      Csv(LabelsWithout(1..CURVE_LENGTH), FALSE, FixedDates) \o << NL >>,
      Csv(CURVE_LABELS, TRUE, << "12/29/2023" >>) \o << NL >>
          \o Join(RowFields("12/28/2023", 2, CURVE_LENGTH), COMMA),
      << >> }

CsvInputs ==
    MissingCsvs \cup RowOrderCsvs \cup PermutedCsvs \cup UnknownLabelCsvs
        \cup MalformedCsvs \cup EmptyLineCsvs

(* try_from of every input, evaluated once. *)
Built == [c \in CsvInputs |-> try_from(c)]

(***************************************************************************)
(* The library and its caller.                                             *)
(*   csv          the CSV text the caller holds, and the body the Treasury *)
(*                site answers a transfer with                             *)
(*   currentYear  utility::current_year()                                  *)
(*   history      the TreasuryCurveHistory the caller holds (Option)       *)
(*   op           the operation called last and its arguments              *)
(*   inFlight     fetch_csv_year is waiting in transfer.perform()          *)
(*   transfers    the transfers operation op has performed                 *)
(*   outcome      what operation op returned; status "Panic" when it       *)
(*                panicked, "None" while it has not returned               *)
(***************************************************************************)
VARIABLES csv, currentYear, history, op, inFlight, transfers, outcome

vars == << csv, currentYear, history, op, inFlight, transfers, outcome >>

Op(name, y, date, label) == [name |-> name, year |-> y, date |-> date, label |-> label]

NoResult == Result("None", NoError, None, << >>, None)

Init ==
    /\ csv \in CsvInputs
    /\ currentYear \in { 2023, 2024 }
    /\ history = None
    /\ op = Op("none", 0, 0, << >>)
    /\ inFlight = FALSE
    /\ transfers = 0
    /\ outcome = NoResult

(* The caller can call: nothing is in flight and no panic ended the process. *)
Idle == ~inFlight /\ outcome.status # "Panic"

(* TreasuryCurveHistory::try_from(TreasuryCurveCsv(csv)) *)
TryFrom ==
    /\ Idle
    /\ LET r == Built[csv]
       IN  /\ history' = IF r.status = "Ok" THEN Some(r.hist) ELSE history
           /\ outcome' = Result(r.status, r.err, None, << >>, None)
    /\ op' = Op("try_from", 0, 0, << >>)
    /\ transfers' = 0
    /\ UNCHANGED << csv, currentYear, inFlight >>

(* history.latest() *)
Latest ==
    /\ Idle
    /\ history # None
    /\ outcome' = latest(history[1])
    /\ op' = Op("latest", 0, 0, << >>)
    /\ transfers' = 0
    /\ UNCHANGED << csv, currentYear, history, inFlight >>

(* history.from_date(request_date) *)
FromDate(request_date) ==
    /\ Idle
    /\ history # None
    /\ outcome' = from_date(history[1], request_date)
    /\ op' = Op("from_date", 0, request_date, << >>)
    /\ transfers' = 0
    /\ UNCHANGED << csv, currentYear, history, inFlight >>

(* curve.get_label(label) on the curve the last operation returned *)
GetLabel(label) ==
    /\ Idle
    /\ outcome.curve # << >>
    /\ outcome' = get_label(outcome.curve, label)
    /\ op' = Op("get_label", 0, 0, label)
    /\ transfers' = 0
    /\ UNCHANGED << csv, currentYear, history, inFlight >>

(* history.closest_date(request_date), called on its own as the module's
   tests do; first().unwrap() on an empty Vec panics, and so does reading
   dates[index] past the end. *)
ClosestDate(request_date) ==
    /\ Idle
    /\ history # None
    /\ outcome' = IF Len(history[1].dates) = 0
                  THEN Panic
                  ELSE LET index == closest_date(history[1], request_date)
                       IN  IF index < 0
                           THEN Panic
                           ELSE [Result("Ok", NoError, None, << >>, None)
                                    EXCEPT !.index = Some(index)]
    /\ op' = Op("closest_date", 0, request_date, << >>)
    /\ transfers' = 0
    /\ UNCHANGED << csv, currentYear, history, inFlight >>

(* fetch_csv_year up to transfer.perform(): treasury_url(year)? returns
   InvalidYear, or the transfer starts. *)
StartFetch(name, y, date) ==
    /\ Idle
    /\ op' = Op(name, y, date, << >>)
    /\ transfers' = 0
    /\ IF treasury_url(y, currentYear)
       THEN /\ inFlight' = TRUE
            /\ outcome' = NoResult
       ELSE /\ inFlight' = FALSE
            /\ outcome' = Err(InvalidYear(y))
    /\ UNCHANGED << csv, currentYear, history >>

(* fetch_year(requst_year) *)
FetchYear(y) == StartFetch("fetch_year", y, 0)

(* fetch_date(request_date) = fetch_year(request_date.year())?.from_date(..) *)
FetchDate(request_date) == StartFetch("fetch_date", year(request_date), request_date)

(* fetch_latest() = fetch_year(current_year())?.latest() *)
FetchLatest == StartFetch("fetch_latest", currentYear, 0)

(* What the fetch operation op makes of the history built from the body. *)
Query(hist) ==
    IF op.name = "fetch_latest" THEN latest(hist)
    ELSE IF op.name = "fetch_date" THEN from_date(hist, op.date)
    ELSE Result("Ok", NoError, None, << >>, None)

(* transfer.perform() ends: with a curl error, with a body that is not
   UTF-8, or with the CSV, which fetch_year builds the history from and
   fetch_latest / fetch_date query. *)
Transfer(response) ==
    /\ inFlight
    /\ inFlight' = FALSE
    /\ transfers' = transfers + 1
    /\ IF response = "curl"
       THEN outcome' = Err(FetchData) /\ UNCHANGED history
       ELSE IF response = "utf8"
       THEN outcome' = Err(WebParseUtf8) /\ UNCHANGED history
       ELSE LET r == Built[csv]
            IN  /\ outcome' = IF r.status = "Ok" THEN Query(r.hist)
                              ELSE Result(r.status, r.err, None, << >>, None)
                /\ history' = IF r.status = "Ok" /\ op.name = "fetch_year"
                              THEN Some(r.hist) ELSE history
    /\ UNCHANGED << csv, currentYear, op >>

Next ==
    \/ TryFrom
    \/ Latest
    \/ \E d \in RequestDates : FromDate(d)
    \/ \E d \in RequestDates : ClosestDate(d)
    \/ \E l \in QueryLabels : GetLabel(l)
    \/ \E y \in RequestYears : FetchYear(y)
    \/ \E d \in RequestDates : FetchDate(d)
    \/ FetchLatest
    \/ \E response \in { "ok", "curl", "utf8" } : Transfer(response)

Spec == Init /\ [][Next]_vars

(***************************************************************************)
(* What the properties read off the state.                                 *)
(***************************************************************************)
Hist == history[1]

NonEmptyHistory == history # None /\ Len(Hist.dates) > 0

Newest == Hist.dates[1]

Oldest == Hist.dates[Len(Hist.dates)]

(***************************************************************************)
(* C1: from_date, asked for a date from the oldest history date up to 5    *)
(* days after the newest, returns the entry whose date is the greatest     *)
(* history date not after the request (the exact date when the history     *)
(* has it, the newest entry in the 5 days after it), never a later date.   *)
(***************************************************************************)
C1_AsOfGreatestNotAfter ==
    (/\ op.name = "from_date"
     /\ NonEmptyHistory
     /\ Oldest <= op.date
     /\ op.date <= Newest + 5)
    => /\ outcome.status = "Ok"
       /\ \E k \in 1..Len(Hist.dates) :
            /\ outcome.date = Some(Hist.dates[k])
            /\ outcome.curve = Hist.curves[k]
            /\ Hist.dates[k] <= op.date
            /\ \A j \in 1..Len(Hist.dates) :
                 Hist.dates[j] <= op.date => Hist.dates[j] <= Hist.dates[k]

(* A request strictly between two history dates, answered with the earlier. *)
C1_Witness ==
    /\ op.name = "from_date"
    /\ NonEmptyHistory
    /\ outcome.status = "Ok"
    /\ op.date < Newest
    /\ outcome.date[1] < op.date
    /\ \E j \in 1..Len(Hist.dates) : Hist.dates[j] > op.date /\ Hist.dates[j] < Newest

(***************************************************************************)
(* C2: from_date on a non-empty history fails with OutsideDateRange        *)
(* exactly when the request is later than the newest date + 5 days or      *)
(* earlier than the oldest date; a failure carries the requested date and  *)
(* returns no entry, and every other request succeeds.                     *)
(***************************************************************************)
C2_OutsideDateRangeExactly ==
    (op.name = "from_date" /\ NonEmptyHistory)
    => IF op.date > Newest + 5 \/ op.date < Oldest
       THEN /\ outcome.status = "Err"
            /\ outcome.err.kind = "OutsideDateRange"
            /\ outcome.err.date = to_calendar_date(op.date)
            /\ outcome.date = None
            /\ outcome.curve = << >>
       ELSE /\ outcome.status = "Ok"
            /\ outcome.date # None

(* The request on the last day of the window succeeded. *)
C2_Witness ==
    /\ op.name = "from_date"
    /\ NonEmptyHistory
    /\ op.date = Newest + 5
    /\ year(op.date) > year(Newest)
    /\ outcome.status = "Ok"
    /\ outcome.date = Some(Newest)

(***************************************************************************)
(* The CSV text as the properties read it: its lines, the header's fields  *)
(* after the date column (quotes removed), and the fields of each data     *)
(* line.                                                                   *)
(***************************************************************************)
CsvView(c) ==
    LET lines == Split(c, NL)
    IN  [labels |-> Tail(Split(Replace(lines[1], QUOTE), COMMA)),
         lines  |-> Tail(lines),
         fields |-> [k \in 1..(Len(lines) - 1) |-> Split(lines[k + 1], COMMA)]]

(* The view of every input, evaluated once. *)
Views == [c \in CsvInputs |-> CsvView(c)]

HeaderLabels == Views[csv].labels

DataLines == Views[csv].lines

FieldsOf(k) == Views[csv].fields[k]

Canonical(label) == \E i \in 1..CURVE_LENGTH : label = << CURVE_LABELS[i] >>

HeaderCanonical == \A c \in 1..Len(HeaderLabels) : Canonical(HeaderLabels[c])

HeaderDistinct ==
    \A c, d \in 1..Len(HeaderLabels) : c # d => HeaderLabels[c] # HeaderLabels[d]

(* The canonical positions (1-based) the header names. *)
PresentSlots ==
    { i \in 1..CURVE_LENGTH :
        \E c \in 1..Len(HeaderLabels) : HeaderLabels[c] = << CURVE_LABELS[i] >> }

(* Data line k is a date and n numbers. *)
WellFormedRow(k, n) ==
    /\ Len(FieldsOf(k)) = n + 1
    /\ DateParse(FieldsOf(k)[1]) # None
    /\ \A c \in 2..(n + 1) : F64Parse(FieldsOf(k)[c]) # None

RowDate(k) == DateParse(FieldsOf(k)[1])[1]

(* The c-th number of data line k. *)
RowValue(k, c) == F64Parse(FieldsOf(k)[c + 1])[1]

RowDatesDistinct ==
    \A k, m \in 1..Len(DataLines) : k # m => FieldsOf(k)[1] # FieldsOf(m)[1]

(***************************************************************************)
(* C3: every history a successful build returns has dates strictly         *)
(* descending, as many curves as dates, and at least one entry.            *)
(* The code returns an empty history for a CSV with no data line and       *)
(* keeps rows of equal dates.                                              *)
(***************************************************************************)
C3_HistoryInvariant ==
    history # None
    => /\ Len(Hist.dates) = Len(Hist.curves)
       /\ Len(Hist.dates) > 0
       /\ \A i \in 1..(Len(Hist.dates) - 1) : Hist.dates[i] > Hist.dates[i + 1]

(***************************************************************************)
(* C4: when the header (canonical labels) lacks one or more of the 13      *)
(* tenors and every row carries a date and one number per present tenor,   *)
(* the build succeeds and every row's snapshot has 13 positions: an        *)
(* absence at exactly the missing canonical positions and, at the others,  *)
(* the row's numbers in their input order.                                 *)
(***************************************************************************)
C4_AbsencesAtMissingSlots ==
    (/\ op.name = "try_from"
     /\ HeaderCanonical
     /\ PresentSlots # 1..CURVE_LENGTH
     /\ \A k \in 1..Len(DataLines) : WellFormedRow(k, Cardinality(PresentSlots)))
    => /\ outcome.status = "Ok"
       /\ history # None
       /\ Len(Hist.dates) = Len(DataLines)
       /\ \A k \in 1..Len(DataLines) :
            \E j \in 1..Len(Hist.dates) :
               /\ Hist.dates[j] = RowDate(k)
               /\ Len(Hist.curves[j]) = 13
               /\ \A i \in 1..13 :
                    Hist.curves[j][i] =
                       IF i \in PresentSlots
                       THEN Some(RowValue(k, Cardinality({ m \in PresentSlots : m <= i })))
                       ELSE None

(* A history built from a header lacking a tenor between two present ones. *)
C4_Witness ==
    /\ op.name = "try_from"
    /\ outcome.status = "Ok"
    /\ history # None
    /\ Len(Hist.curves) > 0
    /\ Hist.curves[1][3] # None
    /\ Hist.curves[1][4] = None
    /\ Hist.curves[1][5] # None

(***************************************************************************)
(* C5: when the header lists distinct canonical labels, in any order, and  *)
(* every row carries one number per header field, each row's snapshot      *)
(* holds at the canonical slot of header label L the number in the column  *)
(* headed L: get_label(L) returns that column's value.                     *)
(* The code keeps the set of header labels only, not their order.          *)
(***************************************************************************)
C5_ValueUnderItsLabel ==
    (/\ op.name = "try_from"
     /\ outcome.status = "Ok"
     /\ history # None
     /\ HeaderCanonical
     /\ HeaderDistinct
     /\ \A k \in 1..Len(DataLines) : WellFormedRow(k, Len(HeaderLabels)))
    => \A k \in 1..Len(DataLines) :
         \E j \in 1..Len(Hist.dates) :
            /\ Hist.dates[j] = RowDate(k)
            /\ \A c \in 1..Len(HeaderLabels) :
                 get_label(Hist.curves[j], HeaderLabels[c]).value = Some(Some(RowValue(k, c)))

(***************************************************************************)
(* C6: a label that is none of the 13 canonical labels fails with          *)
(* MissingLabel carrying that label.  A header with such a field after the *)
(* date column fails the build with the first such field and no history    *)
(* is returned; get_label with such a label returns the error and no value.*)
(***************************************************************************)
C6_UnknownLabelFails ==
    /\ (op.name = "try_from" /\ ~HeaderCanonical)
       => /\ outcome.status = "Err"
          /\ \E c \in 1..Len(HeaderLabels) :
               /\ ~Canonical(HeaderLabels[c])
               /\ \A d \in 1..(c - 1) : Canonical(HeaderLabels[d])
               /\ outcome.err = MissingLabel(HeaderLabels[c])
          /\ history = None
    /\ (op.name = "get_label" /\ ~Canonical(op.label))
       => /\ outcome.status = "Err"
          /\ outcome.err = MissingLabel(op.label)
          /\ outcome.value = None

(* A build that failed on an unsupported tenor behind supported ones. *)
C6_Witness ==
    /\ op.name = "try_from"
    /\ outcome.status = "Err"
    /\ outcome.err = MissingLabel(Text("9 Mo"))
    /\ Len(HeaderLabels) > 1
    /\ Canonical(HeaderLabels[1])
    /\ history = None

(***************************************************************************)
(* C7: when a data row holds a field that is no number or a first field    *)
(* that is no date, the build returns an error value: it does not panic    *)
(* and returns no history.                                                 *)
(* The code unwraps the failed parse and panics.                           *)
(***************************************************************************)
C7_MalformedFieldIsAnError ==
    (/\ op.name = "try_from"
     /\ HeaderCanonical
     /\ \E k \in 1..Len(DataLines) :
          \/ DateParse(FieldsOf(k)[1]) = None
          \/ \E c \in 2..Len(FieldsOf(k)) : F64Parse(FieldsOf(k)[c]) = None)
    => /\ outcome.status = "Err"
       /\ history = None

(***************************************************************************)
(* C8: for a CSV whose rows have distinct dates, in any order, latest() on *)
(* the built history returns the date of the most recent row and that      *)
(* row's snapshot.                                                         *)
(***************************************************************************)
C8_LatestIsNewestRow ==
    (/\ op.name = "latest"
     /\ Len(DataLines) > 0
     /\ RowDatesDistinct)
    => /\ outcome.status = "Ok"
       /\ \E k \in 1..Len(DataLines) :
            /\ \A m \in 1..Len(DataLines) : RowDate(m) <= RowDate(k)
            /\ outcome.date = Some(RowDate(k))
            /\ outcome.curve = load_curve(DataLines[k], active_flags(<< << >> >> \o HeaderLabels).flags).curve

(* latest() answered with a row that is not the first line of the CSV. *)
C8_Witness ==
    /\ op.name = "latest"
    /\ outcome.status = "Ok"
    /\ Len(DataLines) > 1
    /\ RowDatesDistinct
    /\ outcome.date # Some(RowDate(1))
    /\ outcome.date # Some(RowDate(Len(DataLines)))

(***************************************************************************)
(* C9: a fetch for a year outside [1990, current year] (fetch_year, or     *)
(* fetch_date with a date in such a year) has returned InvalidYear(year)   *)
(* with no transfer performed or waiting; a date in a future year gets     *)
(* InvalidYear, not OutsideDateRange.                                      *)
(***************************************************************************)
C9_InvalidYearBeforeFetch ==
    \A y \in RequestYears \cup { year(d) : d \in RequestDates } :
       (/\ \/ op.name = "fetch_year" /\ op.year = y
           \/ op.name = "fetch_date" /\ year(op.date) = y
        /\ (y < 1990 \/ y > currentYear))
       => /\ outcome.status = "Err"
          /\ outcome.err = InvalidYear(y)
          /\ transfers = 0
          /\ ~inFlight

(* A date of next year, within 5 days of the last published curve. *)
C9_Witness ==
    /\ op.name = "fetch_date"
    /\ year(op.date) > currentYear
    /\ op.date <= LastPublished + 5
    /\ outcome.err = InvalidYear(currentYear + 1)
    /\ transfers = 0

(***************************************************************************)
(* C10: the build decodes the non-empty lines after the header only: when  *)
(* the header is canonical and every non-empty data line is a well-formed  *)
(* row, the build succeeds with one entry per non-empty data line, empty   *)
(* lines being skipped.                                                    *)
(* The code decodes the empty lines too and panics on them.                *)
(***************************************************************************)
C10_EmptyLinesSkipped ==
    (/\ op.name = "try_from"
     /\ HeaderCanonical
     /\ \A k \in 1..Len(DataLines) :
          DataLines[k] # << >> => WellFormedRow(k, Cardinality(PresentSlots)))
    => /\ outcome.status = "Ok"
       /\ history # None
       /\ Len(Hist.dates) = Cardinality({ k \in 1..Len(DataLines) : DataLines[k] # << >> })

(***************************************************************************)
(* C11: on every non-empty history and for every request date,             *)
(* closest_date returns an index from 0 to len - 1 and never reads dates   *)
(* past the end (which would panic).  When the scan is entered, the oldest *)
(* date being before the request and the newest after it, some index from  *)
(* 1 on holds a date not after the request, and the scan returns the first *)
(* such index.                                                             *)
(***************************************************************************)
C11_ScanStaysInBounds ==
    (op.name = "closest_date" /\ NonEmptyHistory)
    => /\ outcome.status = "Ok"
       /\ outcome.index # None
       /\ outcome.index[1] \in 0..(Len(Hist.dates) - 1)
       /\ (Oldest < op.date /\ op.date < Newest)
          => /\ \E i \in 1..(Len(Hist.dates) - 1) : Hist.dates[i + 1] <= op.date
             /\ outcome.index[1] >= 1
             /\ Hist.dates[outcome.index[1] + 1] <= op.date
             /\ \A i \in 1..(outcome.index[1] - 1) : Hist.dates[i + 1] > op.date

(* The scan passed over index 1 and stopped at a later index. *)
C11_Witness ==
    /\ op.name = "closest_date"
    /\ NonEmptyHistory
    /\ Oldest < op.date
    /\ op.date < Newest
    /\ outcome.status = "Ok"
    /\ outcome.index # None
    /\ outcome.index[1] >= 2
    /\ Hist.dates[2] > op.date

====
